---------------------------- MODULE Spec2Model ----------------------------
(***************************************************************************)
(* A model of the proof-of-work chain of src/src/chain/mod.rs: a Chain     *)
(* owns a Vec<Block>; push mines a block on the current tail and appends   *)
(* it; verify walks the blocks and reports the first violation.            *)
(*                                                                         *)
(* Blocks are records [id, nonce, data, prev_hash]; data is a sequence of  *)
(* bytes and prev_hash a sequence of HASH_LEN bytes.  The fields of Block  *)
(* and Chain are `pub`, and the tests and main write them directly, so the *)
(* model has one action per such write besides push and verify.            *)
(*                                                                         *)
(* The SHA-256 of the external crate `crypto` is not computed bit for bit: *)
(* Sha256 below is a fixed deterministic mixing function from byte         *)
(* sequences to HASH_LEN bytes whose leading bits are spread evenly.  It   *)
(* is applied to the exact byte encoding as_bytes builds.  The nonce space *)
(* 0..u32::max_value() is scaled down to 0..U32_MAX.                        *)
(*                                                                         *)
(* src/src/chain/serialization.rs hands the chain to serde_json.  The JSON *)
(* text is modelled as the sequence of its tokens (punctuation, field      *)
(* names, numbers as decimal digits); deserialize parses that sequence.    *)
(*                                                                         *)
(* Two specifications: Spec runs the chain engine (push, verify and the    *)
(* direct writes); SpecPure applies one function of the crate to one input *)
(* drawn from a bounded set.                                               *)
(***************************************************************************)
EXTENDS Integers, Sequences, FiniteSets, TLC

\* ------------------------------------------------------------------ bounds

\* Longest chain the model builds.
MaxLen == 3

\* Stand-in for u32::max_value(), the (exclusive) end of find_nonce's range.
U32_MAX == 24

\* Number of direct field writes (tampering from outside the engine) in a run.
MaxTamper == 2

\* ----------------------------------------------------------------- constants

\* pub type Hash = [u8; 32]
HASH_LEN == 32

\* const DIFFICULTY: u32 = 4
DIFFICULTY == 4

\* const ZERO_HASH: Hash = [0; 32]
ZERO_HASH == [j \in 1..HASH_LEN |-> 0]

\* Payloads the caller passes to push (Data = Vec<u8>; the empty one included).
Payloads == { <<>>, <<0>> }

\* Payloads a caller writes into a block of the chain.
Datas == Payloads \cup { <<5>> }

\* Difficulties a caller passes to find_nonce on a block of the chain.
Difficulties == {1, DIFFICULTY + 1}

\* ------------------------------------------------------------ encoder/hasher

\* The big-endian encoding of n in `width` bytes (write_u64 / write_u32).
RECURSIVE BigEndian(_, _)
BigEndian(n, width) ==
    IF width = 0 THEN <<>>
    ELSE Append(BigEndian(n \div 256, width - 1), n % 256)

\* as_bytes that leaves the payload out.
as_bytes_no_data(block) ==
    BigEndian(block.id, 8) \o BigEndian(block.nonce, 4) \o block.prev_hash

\* as_bytes: id (8 bytes), nonce (4 bytes), data, prev_hash, no delimiters.
as_bytes(block) ==
    BigEndian(block.id, 8) \o BigEndian(block.nonce, 4)
        \o block.data \o block.prev_hash

\* The input is absorbed in words of 8 bytes; past its end it is padded.
Byte(bytes, i) == IF i <= Len(bytes) THEN bytes[i] + 1 ELSE 0
Pair(bytes, i) == Byte(bytes, i) * 257 + Byte(bytes, i + 1)
Quad(bytes, i) == (Pair(bytes, i) * 311 + Pair(bytes, i + 2)) % 32749
Word(bytes, i) == (Quad(bytes, i) * 313 + Quad(bytes, i + 4)) % 32749

\* Absorbing the words from byte i on into the 15-bit state st.
RECURSIVE Absorb(_, _, _)
Absorb(bytes, i, st) ==
    IF i > Len(bytes) THEN st
    ELSE Absorb(bytes, i + 8,
                (((st + Word(bytes, i) + 1) % 32749) * (st + 251) + 7) % 32749)

\* One step of the output generator.
Mix(x) == ((x + 3) * (x + 3) + x * 5 + 74) % 32749

\* The generator state behind the k-th byte of the digest.
Squeeze(st, k) == Mix(Mix(Mix((st + 97 * k) % 32749)))

\* The digest of a byte sequence: HASH_LEN bytes.
Sha256(bytes) ==
    LET absorbed == Absorb(bytes, 1, 1 + Len(bytes))
    IN  [j \in 1..HASH_LEN |-> (Squeeze(absorbed, j) \div 7) % 256]

\* hash: the digest of the block's encoding.
hash(block) == Sha256(as_bytes(block))

\* u8::leading_zeros of a non-zero byte.
LeadingZeros(byte) ==
    IF byte >= 128 THEN 0
    ELSE IF byte >= 64 THEN 1
    ELSE IF byte >= 32 THEN 2
    ELSE IF byte >= 16 THEN 3
    ELSE IF byte >= 8 THEN 4
    ELSE IF byte >= 4 THEN 5
    ELSE IF byte >= 2 THEN 6
    ELSE IF byte >= 1 THEN 7
    ELSE 8

\* The loop of leading_zero_bits from byte k on, zero_bits counted so far.
RECURSIVE LeadingZeroBitsFrom(_, _, _)
LeadingZeroBitsFrom(h, k, zero_bits) ==
    IF k > Len(h) THEN zero_bits
    ELSE IF h[k] = 0 THEN LeadingZeroBitsFrom(h, k + 1, zero_bits + 8)
    ELSE zero_bits + LeadingZeros(h[k])

\* leading_zero_bits that counts whole zero bytes only.
leading_zero_bits_whole(h) ==
    LeadingZeroBitsFrom(h, 1, 0) - (LeadingZeroBitsFrom(h, 1, 0) % 8)

leading_zero_bits(h) == LeadingZeroBitsFrom(h, 1, 0)

\* The assert!(hash.len() * 8 >= difficulty) holds for every difficulty the
\* model passes (at most DIFFICULTY + 1, against HASH_LEN * 8 bits).
matches_difficulty(h, difficulty) == leading_zero_bits(h) >= difficulty


\* ------------------------------------------------------------- chain engine

\* Option<T>: None, or Some(x) as a one-element sequence.
None == <<>>
Some(x) == <<x>>

\* chain.blocks.last()
last(chain) == IF chain = <<>> THEN None ELSE Some(chain[Len(chain)])

\* The loop of find_nonce from candidate n on.  `returned` is FALSE when the
\* range is exhausted and unreachable!() panics; block is then as the loop
\* left it.
RECURSIVE FindNonceFrom(_, _, _)
FindNonceFrom(block, difficulty, n) ==
    IF n >= U32_MAX THEN [returned |-> FALSE, block |-> block]
    ELSE IF matches_difficulty(hash([block EXCEPT !.nonce = n]), difficulty)
         THEN [returned |-> TRUE, block |-> [block EXCEPT !.nonce = n]]
         ELSE FindNonceFrom([block EXCEPT !.nonce = n], difficulty, n + 1)

\* find_nonce with the nonce advanced once more after the hit.
find_nonce_late(block, difficulty) ==
    LET hit == FindNonceFrom(block, difficulty, 0)
    IN  IF hit.returned
        THEN [hit EXCEPT !.block = [hit.block EXCEPT !.nonce = hit.block.nonce + 1]]
        ELSE hit

\* find_nonce whose search starts at nonce 1.
find_nonce_from_one(block, difficulty) == FindNonceFrom(block, difficulty, 1)

\* for n in 0..<u32>::max_value()
find_nonce(block, difficulty) == FindNonceFrom(block, difficulty, 0)

\* make_block that links every block to the sentinel.
make_block_unlinked(prev, data) ==
    FindNonceFrom([id |-> IF prev = None THEN 0 ELSE prev[1].id + 1, nonce |-> 0,
                   data |-> data, prev_hash |-> ZERO_HASH], DIFFICULTY, 0)

\* make_block that numbers the block like its predecessor.
make_block_same_id(prev, data) ==
    FindNonceFrom([id |-> IF prev = None THEN 0 ELSE prev[1].id, nonce |-> 0,
                   data |-> data,
                   prev_hash |-> IF prev = None THEN ZERO_HASH ELSE hash(prev[1])],
                  DIFFICULTY, 0)

\* make_block that mines one bit short of DIFFICULTY.
make_block_weak(prev, data) ==
    FindNonceFrom([id |-> IF prev = None THEN 0 ELSE prev[1].id + 1, nonce |-> 0,
                   data |-> data,
                   prev_hash |-> IF prev = None THEN ZERO_HASH ELSE hash(prev[1])],
                  DIFFICULTY - 1, 0)

\* make_block that numbers every block after the genesis block 1.
make_block_id_one(prev, data) ==
    FindNonceFrom([id |-> IF prev = None THEN 0 ELSE 1, nonce |-> 0,
                   data |-> data,
                   prev_hash |-> IF prev = None THEN ZERO_HASH ELSE hash(prev[1])],
                  DIFFICULTY, 0)

make_block(prev, data) ==
    LET new_prev_hash == IF prev = None THEN ZERO_HASH ELSE hash(prev[1])
        new_id == IF prev = None THEN 0 ELSE prev[1].id + 1
        new_block == [id |-> new_id, nonce |-> 0, data |-> data,
                      prev_hash |-> new_prev_hash]
    IN  find_nonce(new_block, DIFFICULTY)

\* push that stores the new block over the tail instead of behind it.
push_overwrite(chain, data) ==
    LET fresh == make_block(last(chain), data)
    IN  [returned |-> fresh.returned,
         blocks |-> IF ~fresh.returned THEN chain
                    ELSE IF chain = <<>> THEN <<fresh.block>>
                    ELSE [chain EXCEPT ![Len(chain)] = fresh.block]]

\* push that puts the new block in front of the chain.
push_front(chain, data) ==
    LET fresh == make_block(last(chain), data)
    IN  [returned |-> fresh.returned,
         blocks |-> IF fresh.returned THEN <<fresh.block>> \o chain ELSE chain]

\* push: what chain.blocks is after the call, and whether the call returned.
push(chain, data) ==
    LET made == make_block(last(chain), data)
    IN  [returned |-> made.returned,
         blocks |-> IF made.returned THEN Append(chain, made.block) ELSE chain]

\* Result<(), String>: Ok(()) and the three Err(format!(...)) of verify.
Ok == [ok |-> TRUE]
Err(kind, i, expected, found) ==
    [ok |-> FALSE, kind |-> kind, at |-> i, expected |-> expected, found |-> found]

IdMismatch == "Id mismatch"
LinkBroken == "Link broken"
HashTarget == "Hash target failure"

\* The loop of verify at position i (0-based), prev_hash threaded forward.
RECURSIVE VerifyFrom(_, _, _)
VerifyFrom(chain, i, prev_hash) ==
    IF i >= Len(chain) THEN Ok
    ELSE LET cur == chain[i + 1]
             cur_hash == hash(cur)
         IN  IF cur.id # i THEN Err(IdMismatch, i, i, cur.id)
             ELSE IF cur.prev_hash # prev_hash
                  THEN Err(LinkBroken, i, prev_hash, cur.prev_hash)
             ELSE IF ~matches_difficulty(cur_hash, DIFFICULTY)
                  THEN Err(HashTarget, i, DIFFICULTY, cur_hash)
             ELSE VerifyFrom(chain, i + 1, cur_hash)

\* verify without the link check.
RECURSIVE VerifyNoLinkFrom(_, _)
VerifyNoLinkFrom(chain, i) ==
    IF i >= Len(chain) THEN Ok
    ELSE IF chain[i + 1].id # i THEN Err(IdMismatch, i, i, chain[i + 1].id)
    ELSE IF ~matches_difficulty(hash(chain[i + 1]), DIFFICULTY)
         THEN Err(HashTarget, i, DIFFICULTY, hash(chain[i + 1]))
    ELSE VerifyNoLinkFrom(chain, i + 1)

verify_no_link(chain) == VerifyNoLinkFrom(chain, 0)

\* verify without the proof-of-work check.
RECURSIVE VerifyNoTargetFrom(_, _, _)
VerifyNoTargetFrom(chain, i, prev_hash) ==
    IF i >= Len(chain) THEN Ok
    ELSE IF chain[i + 1].id # i THEN Err(IdMismatch, i, i, chain[i + 1].id)
    ELSE IF chain[i + 1].prev_hash # prev_hash
         THEN Err(LinkBroken, i, prev_hash, chain[i + 1].prev_hash)
    ELSE VerifyNoTargetFrom(chain, i + 1, hash(chain[i + 1]))

verify_no_target(chain) == VerifyNoTargetFrom(chain, 0, ZERO_HASH)

\* verify that checks only the first block.
verify_first_only(chain) ==
    IF chain = <<>> THEN Ok ELSE VerifyFrom(<<chain[1]>>, 0, ZERO_HASH)

\* verify that starts its walk at the second block.
verify_skip_genesis(chain) ==
    IF chain = <<>> THEN Ok ELSE VerifyFrom(chain, 1, hash(chain[1]))

\* verify that tests the link before the id.
RECURSIVE VerifyLinkFirstFrom(_, _, _)
VerifyLinkFirstFrom(chain, i, prev_hash) ==
    IF i >= Len(chain) THEN Ok
    ELSE IF chain[i + 1].prev_hash # prev_hash
         THEN Err(LinkBroken, i, prev_hash, chain[i + 1].prev_hash)
    ELSE IF chain[i + 1].id # i THEN Err(IdMismatch, i, i, chain[i + 1].id)
    ELSE IF ~matches_difficulty(hash(chain[i + 1]), DIFFICULTY)
         THEN Err(HashTarget, i, DIFFICULTY, hash(chain[i + 1]))
    ELSE VerifyLinkFirstFrom(chain, i + 1, hash(chain[i + 1]))

verify_link_first(chain) == VerifyLinkFirstFrom(chain, 0, ZERO_HASH)

verify(chain) == VerifyFrom(chain, 0, ZERO_HASH)

\* ------------------------------------------------------------ serialization

\* The decimal digits serde_json writes for an unsigned integer.
RECURSIVE Digits_lossy(_)
Digits_lossy(n) == IF n < 10 THEN <<n>> ELSE Digits_lossy(n \div 10)

RECURSIVE Digits(_)
Digits(n) == IF n < 10 THEN <<n>> ELSE Append(Digits(n \div 10), n % 10)

\* The unsigned integer a sequence of decimal digits reads as.
RECURSIVE Value(_)
Value(digits) ==
    IF digits = <<>> THEN 0
    ELSE Value(SubSeq(digits, 1, Len(digits) - 1)) * 10 + digits[Len(digits)]

\* The tokens of the JSON text: punctuation, a quoted name, a number.
Punct(c) == [t |-> "punct", s |-> c, d |-> <<>>]
Str(name) == [t |-> "string", s |-> name, d |-> <<>>]
Num(n) == [t |-> "number", s |-> "", d |-> Digits(n)]

\* A Vec<u8> or a [u8; 32]: a JSON array of numbers.
NumberArray(a) ==
    IF a = <<>> THEN <<Punct("["), Punct("]")>>
    ELSE [k \in 1..2 * Len(a) + 1 |->
            IF k = 1 THEN Punct("[")
            ELSE IF k = 2 * Len(a) + 1 THEN Punct("]")
            ELSE IF k % 2 = 0 THEN Num(a[k \div 2])
            ELSE Punct(",")]

\* A Block: a JSON object of its fields, in the order of their declaration.
BlockTokens(block) ==
    <<Punct("{"), Str("id"), Punct(":"), Num(block.id), Punct(","),
      Str("nonce"), Punct(":"), Num(block.nonce), Punct(","),
      Str("data"), Punct(":")>>
        \o NumberArray(block.data)
        \o <<Punct(","), Str("prev_hash"), Punct(":")>>
        \o NumberArray(block.prev_hash)
        \o <<Punct("}")>>

\* The blocks from position i on, separated by commas.
RECURSIVE BlocksTokens(_, _)
BlocksTokens(chain, i) ==
    IF i > Len(chain) THEN <<>>
    ELSE IF i = Len(chain) THEN BlockTokens(chain[i])
    ELSE BlockTokens(chain[i]) \o <<Punct(",")>> \o BlocksTokens(chain, i + 1)

\* serialize: serde_json::to_vec(chain).unwrap(), a Chain being {"blocks":[...]}.
serialize(chain) ==
    <<Punct("{"), Str("blocks"), Punct(":"), Punct("[")>>
        \o BlocksTokens(chain, 1)
        \o <<Punct("]"), Punct("}")>>

\* The token at position k, or an end-of-input mark.
At(tokens, k) == IF k \in 1..Len(tokens) THEN tokens[k] ELSE Punct("EOF")

\* The first position from `from` on that holds tok; 0 when there is none.
Find(tokens, from, tok) ==
    LET hits == {k \in from..Len(tokens) : tokens[k] = tok}
    IN  IF hits = {} THEN 0 ELSE CHOOSE k \in hits : \A m \in hits : k <= m

Failed == [ok |-> FALSE]

\* A JSON array of u8 that opens at position `open`.
ParseArray(tokens, open) ==
    LET close == Find(tokens, open, Punct("]"))
        count == (close - open) \div 2
    IN  IF At(tokens, open) # Punct("[") \/ close = 0 THEN Failed
        ELSE IF /\ close # open + 1
                /\ \/ (close - open) % 2 # 0
                   \/ \E k \in open + 1..close - 1 :
                        IF (k - open) % 2 = 1
                        THEN \/ tokens[k].t # "number"
                             \/ Value(tokens[k].d) > 255
                        ELSE tokens[k] # Punct(",")
             THEN Failed
        ELSE [ok |-> TRUE, next |-> close + 1,
              v |-> [j \in 1..count |-> Value(tokens[open + 2 * j - 1].d)]]

\* A Block that opens at position pos.
ParseBlock(tokens, pos) ==
    LET data == ParseArray(tokens, pos + 11)
        link == ParseArray(tokens, data.next + 3)
    IN  IF \/ <<At(tokens, pos), At(tokens, pos + 1), At(tokens, pos + 2)>>
                # <<Punct("{"), Str("id"), Punct(":")>>
           \/ At(tokens, pos + 3).t # "number"
           \/ <<At(tokens, pos + 4), At(tokens, pos + 5), At(tokens, pos + 6)>>
                # <<Punct(","), Str("nonce"), Punct(":")>>
           \/ At(tokens, pos + 7).t # "number"
           \/ <<At(tokens, pos + 8), At(tokens, pos + 9), At(tokens, pos + 10)>>
                # <<Punct(","), Str("data"), Punct(":")>>
           \/ ~data.ok
        THEN Failed
        ELSE IF \/ <<At(tokens, data.next), At(tokens, data.next + 1),
                     At(tokens, data.next + 2)>>
                     # <<Punct(","), Str("prev_hash"), Punct(":")>>
                \/ ~link.ok
             THEN Failed
        ELSE IF Len(link.v) # HASH_LEN \/ At(tokens, link.next) # Punct("}")
             THEN Failed
        ELSE [ok |-> TRUE, next |-> link.next + 1,
              block |-> [id |-> Value(tokens[pos + 3].d),
                         nonce |-> Value(tokens[pos + 7].d),
                         data |-> data.v, prev_hash |-> link.v]]

\* The blocks of the array from position pos on, after those in acc.
RECURSIVE ParseBlocks(_, _, _)
ParseBlocks(tokens, pos, acc) ==
    LET parsed == ParseBlock(tokens, pos)
    IN  IF ~parsed.ok THEN Failed
        ELSE IF At(tokens, parsed.next) = Punct(",")
             THEN ParseBlocks(tokens, parsed.next + 1, Append(acc, parsed.block))
        ELSE IF At(tokens, parsed.next) = Punct("]")
             THEN [ok |-> TRUE, next |-> parsed.next + 1,
                   chain |-> Append(acc, parsed.block)]
        ELSE Failed

CouldNotDeserialize == [ok |-> FALSE, err |-> "Could not deserialize chain"]

\* deserialize: serde_json::from_slice(data), any error mapped to one message.
deserialize(tokens) ==
    LET list == IF At(tokens, 5) = Punct("]")
                THEN [ok |-> TRUE, next |-> 6, chain |-> <<>>]
                ELSE ParseBlocks(tokens, 5, <<>>)
    IN  IF SubSeq(tokens, 1, IF Len(tokens) < 4 THEN Len(tokens) ELSE 4)
              # <<Punct("{"), Str("blocks"), Punct(":"), Punct("[")>>
        THEN CouldNotDeserialize
        ELSE IF ~list.ok THEN CouldNotDeserialize
        ELSE IF At(tokens, list.next) # Punct("}") \/ list.next # Len(tokens)
             THEN CouldNotDeserialize
        ELSE [ok |-> TRUE, chain |-> list.chain]

\* -------------------------------------------------------------------- state

VARIABLES
    blocks,     \* chain.blocks
    aborted,    \* the process panicked (unreachable!() in find_nonce)
    verdict,    \* what verify returned, if the last operation was verify
    op,         \* the last operation and its arguments
    before,     \* chain.blocks before the last operation
    tampers,    \* number of direct field writes so far
    pristine,   \* chain.blocks as push built it, up to the first direct write
    call,       \* SpecPure: the function applied and its arguments
    result,     \* SpecPure: what the function returned, once it has
    decoded     \* SpecPure: what deserialize returned on `result`, once it has

engineVars == <<blocks, aborted, verdict, op, before, tampers, pristine>>
pureVars == <<call, result, decoded>>
vars == <<blocks, aborted, verdict, op, before, tampers, pristine,
          call, result, decoded>>

\* No function is being applied on its own.
Idle == call = [fn |-> "none"] /\ result = None /\ decoded = None

\* Blockchain::init()
Init ==
    /\ blocks = <<>>
    /\ aborted = FALSE
    /\ verdict = None
    /\ op = [name |-> "init"]
    /\ before = <<>>
    /\ tampers = 0
    /\ pristine = <<>>
    /\ Idle

\* chain.push(data)
Push(data) ==
    /\ ~aborted
    /\ Len(blocks) < MaxLen
    /\ LET pushed == push(blocks, data)
       IN  /\ blocks' = pushed.blocks
           /\ aborted' = ~pushed.returned
           /\ pristine' = IF tampers = 0 THEN pushed.blocks ELSE pristine
    /\ op' = [name |-> "push", data |-> data]
    /\ before' = blocks
    /\ verdict' = None
    /\ UNCHANGED tampers
    /\ UNCHANGED pureVars

\* chain.verify()
Verify ==
    /\ ~aborted
    /\ verdict' = Some(verify(blocks))
    /\ op' = [name |-> "verify"]
    /\ before' = blocks
    /\ UNCHANGED <<blocks, aborted, tampers, pristine>>
    /\ UNCHANGED pureVars

\* A direct write to chain.blocks[i], which becomes `block`.
Write(what, i, block) ==
    /\ ~aborted
    /\ tampers < MaxTamper
    /\ blocks' = [blocks EXCEPT ![i + 1] = block]
    /\ op' = what
    /\ before' = blocks
    /\ verdict' = None
    /\ tampers' = tampers + 1
    /\ UNCHANGED pristine
    /\ UNCHANGED pureVars

\* chain.blocks[i].data = data
SetData(i, data) ==
    /\ i < Len(blocks)
    /\ data # blocks[i + 1].data
    /\ Write([name |-> "set_data", at |-> i], i, [blocks[i + 1] EXCEPT !.data = data])
    /\ UNCHANGED aborted

\* Hashes a caller has at hand: the sentinel and the hashes of the blocks.
KnownHashes == {ZERO_HASH} \cup {hash(blocks[k]) : k \in 1..Len(blocks)}

\* chain.blocks[i].prev_hash = h
SetPrevHash(i, h) ==
    /\ i < Len(blocks)
    /\ h # blocks[i + 1].prev_hash
    /\ Write([name |-> "set_prev_hash", at |-> i], i, [blocks[i + 1] EXCEPT !.prev_hash = h])
    /\ UNCHANGED aborted

\* chain.blocks[i].id = id
SetId(i, id) ==
    /\ i < Len(blocks)
    /\ id # blocks[i + 1].id
    /\ Write([name |-> "set_id", at |-> i], i, [blocks[i + 1] EXCEPT !.id = id])
    /\ UNCHANGED aborted

\* find_nonce(&mut chain.blocks[i], difficulty)
Remine(i, difficulty) ==
    /\ i < Len(blocks)
    /\ LET mined == find_nonce(blocks[i + 1], difficulty)
       IN  /\ Write([name |-> "find_nonce", at |-> i, difficulty |-> difficulty],
                     i, mined.block)
           /\ aborted' = ~mined.returned

Next ==
    \/ \E data \in Payloads : Push(data)
    \/ Verify
    \/ \E i \in 0..MaxLen - 1, data \in Datas : SetData(i, data)
    \/ \E i \in 0..MaxLen - 1, h \in KnownHashes : SetPrevHash(i, h)
    \/ \E i \in 0..MaxLen - 1, id \in 0..MaxLen : SetId(i, id)
    \/ \E i \in 0..MaxLen - 1, difficulty \in Difficulties : Remine(i, difficulty)

Spec == Init /\ [][Next]_vars

\* --------------------------------------------- one function, applied alone

\* Field values of the blocks the functions are applied to.
SampleIds == {0, 3, 300}
SampleNonces == {0, 70000}
SampleDatas == { <<>>, <<0>>, <<255, 0>> }
SampleHashes == {ZERO_HASH, [j \in 1..HASH_LEN |-> 255], Sha256(<<>>)}

SampleBlocks ==
    [id : SampleIds, nonce : SampleNonces, data : SampleDatas,
     prev_hash : SampleHashes]

\* Difficulties find_nonce is applied with.
MineDifficulties == {0, DIFFICULTY} \cup Difficulties

\* 32-byte values with their first non-zero byte at a chosen place.
ZeroPrefixed ==
    {[j \in 1..HASH_LEN |-> IF j < at THEN 0 ELSE IF j = at THEN first ELSE rest] :
        at \in {1, 2, 17, HASH_LEN}, first \in {1, 2, 15, 16, 127, 128, 255},
        rest \in {0, 255}}

CountedHashes == ZeroPrefixed \cup SampleHashes

\* Difficulties matches_difficulty is applied with (at most hash.len() * 8).
CountDifficulties == {0, 1, DIFFICULTY, 8, 9, 121, 135, HASH_LEN * 8 - 1, HASH_LEN * 8}

\* Blocks that differ from one another in one field or in several.
CoreBlocks ==
    {b \in SampleBlocks : b.id # 3 /\ b.data # <<0>> /\ b.prev_hash # ZERO_HASH
                          /\ (b.nonce = 0 <=> b.id = 0)}

\* The chain two pushes build.
PushedChain == push(push(<<>>, <<0>>).blocks, <<>>).blocks

\* Chains handed to serialize: empty, of one block, of two, built by push.
SampleChains ==
    {<<>>, PushedChain} \cup {<<b>> : b \in SampleBlocks}
        \cup {<<b1, b2>> : b1 \in CoreBlocks, b2 \in CoreBlocks}

Calls ==
    [fn : {"find_nonce"}, block : SampleBlocks, difficulty : MineDifficulties]
        \cup [fn : {"as_bytes"}, left : SampleBlocks, right : SampleBlocks]
        \cup [fn : {"matches_difficulty"}, hash : CountedHashes,
              difficulty : CountDifficulties]
        \cup [fn : {"serialize"}, chain : SampleChains]

PureInit ==
    /\ blocks = <<>>
    /\ aborted = FALSE
    /\ verdict = None
    /\ op = [name |-> "init"]
    /\ before = <<>>
    /\ tampers = 0
    /\ pristine = <<>>
    /\ call \in Calls
    /\ result = None
    /\ decoded = None

\* find_nonce(&mut block, difficulty)
Mine ==
    /\ call.fn = "find_nonce"
    /\ result = None
    /\ result' = Some(find_nonce(call.block, call.difficulty))
    /\ UNCHANGED <<call, decoded>>
    /\ UNCHANGED engineVars

\* as_bytes(&left) and as_bytes(&right)
Encode ==
    /\ call.fn = "as_bytes"
    /\ result = None
    /\ result' = Some(<<as_bytes(call.left), as_bytes(call.right)>>)
    /\ UNCHANGED <<call, decoded>>
    /\ UNCHANGED engineVars

\* leading_zero_bits(&hash) and matches_difficulty(&hash, difficulty)
CountZeros ==
    /\ call.fn = "matches_difficulty"
    /\ result = None
    /\ result' = Some([zero_bits |-> leading_zero_bits(call.hash),
                       matches |-> matches_difficulty(call.hash, call.difficulty)])
    /\ UNCHANGED <<call, decoded>>
    /\ UNCHANGED engineVars

\* serialize(&chain)
Serialize ==
    /\ call.fn = "serialize"
    /\ result = None
    /\ result' = Some(serialize(call.chain))
    /\ UNCHANGED <<call, decoded>>
    /\ UNCHANGED engineVars

\* The serialized chain reaches the reader cut short.
Truncate ==
    /\ call.fn = "serialize"
    /\ result = Some(serialize(call.chain))
    /\ decoded = None
    /\ \E cut \in {0, Len(result[1]) \div 2, Len(result[1]) - 1} :
          result' = Some(SubSeq(result[1], 1, cut))
    /\ UNCHANGED <<call, decoded>>
    /\ UNCHANGED engineVars

\* deserialize(&data)
Deserialize ==
    /\ call.fn = "serialize"
    /\ result # None
    /\ decoded = None
    /\ decoded' = Some(deserialize(result[1]))
    /\ UNCHANGED <<call, result>>
    /\ UNCHANGED engineVars

PureNext ==
    \/ Mine
    \/ Encode
    \/ CountZeros
    \/ Serialize
    \/ Truncate
    \/ Deserialize

SpecPure == PureInit /\ [][PureNext]_vars

\* ------------------------------------------------------------------- claims

\* The last operation was a direct write of `field` on a chain that push
\* alone had built, and nothing has happened since.
FirstWrite(field) == tampers = 1 /\ op.name = field

\* The hash block i must link to: that of block i - 1, or the sentinel.
LinkOf(chain, i) == IF i = 0 THEN ZERO_HASH ELSE hash(chain[i])

IdOk(chain, i) == chain[i + 1].id = i
LinkOk(chain, i) == chain[i + 1].prev_hash = LinkOf(chain, i)
TargetOk(chain, i) == matches_difficulty(hash(chain[i + 1]), DIFFICULTY)
Valid(chain, i) == IdOk(chain, i) /\ LinkOk(chain, i) /\ TargetOk(chain, i)
Positions(chain) == 0..Len(chain) - 1

\* C1: a chain built by init and pushes that returned, and by nothing else,
\* verifies, however many pushes there were and whatever the payloads.
C1_PushOnlyVerifies ==
    (tampers = 0 /\ ~aborted) => verify(blocks) = Ok

C1_Witness ==
    /\ tampers = 0
    /\ Len(blocks) = 3
    /\ blocks[2].data = <<>>
    /\ op.name = "verify"
    /\ verdict = Some(Ok)

\* C2 as stated: writing a different payload into one block of a push-built
\* chain makes verify fail with a broken link or a hash-target failure at
\* that block's own index.
C2_Original ==
    FirstWrite("set_data") =>
        /\ ~verify(blocks).ok
        /\ verify(blocks).kind \in {LinkBroken, HashTarget}
        /\ verify(blocks).at = op.at

\* C2 amended: after such a write to block i, verify reports a hash-target
\* failure at i when the block's new hash misses DIFFICULTY; otherwise a
\* broken link at i + 1 when there is a block i + 1 and the hash of block i
\* changed; otherwise it returns Ok.
C2_PayloadWrite ==
    FirstWrite("set_data") =>
        IF ~TargetOk(blocks, op.at)
        THEN verify(blocks)
                = Err(HashTarget, op.at, DIFFICULTY, hash(blocks[op.at + 1]))
        ELSE IF /\ op.at + 1 < Len(blocks)
                /\ hash(blocks[op.at + 1]) # hash(before[op.at + 1])
        THEN verify(blocks)
                = Err(LinkBroken, op.at + 1, hash(blocks[op.at + 1]),
                      blocks[op.at + 2].prev_hash)
        ELSE verify(blocks) = Ok

C2_Witness ==
    /\ FirstWrite("set_data")
    /\ blocks[op.at + 1].data # before[op.at + 1].data
    /\ ~verify(blocks).ok
    /\ verify(blocks).kind = LinkBroken
    /\ verify(blocks).at = op.at + 1

\* C3: writing into block i of a push-built chain a prev_hash other than the
\* one it must link to makes verify report a broken link at i.
C3_WrongPrevHash ==
    (FirstWrite("set_prev_hash") /\ ~LinkOk(blocks, op.at)) =>
        verify(blocks)
            = Err(LinkBroken, op.at, LinkOf(blocks, op.at), blocks[op.at + 1].prev_hash)

C3_Witness ==
    /\ FirstWrite("set_prev_hash")
    /\ op.at = 2
    /\ blocks[3].prev_hash = ZERO_HASH
    /\ LinkOk(before, 2)
    /\ ~verify(blocks).ok

\* The last operation was find_nonce, at a difficulty below DIFFICULTY, on a
\* block of a push-built chain, and it returned.
ReminedLower ==
    /\ FirstWrite("find_nonce")
    /\ op.difficulty < DIFFICULTY
    /\ ~aborted

\* C4 as stated: re-mining a block at a lower difficulty makes verify report
\* a hash-target failure at that block.
C4_Original ==
    ReminedLower =>
        verify(blocks)
            = Err(HashTarget, op.at, DIFFICULTY, hash(blocks[op.at + 1]))

\* C4 amended: re-mining block i at a lower difficulty makes verify report a
\* hash-target failure at i, with the id and link checks passing at i, unless
\* the first nonce that meets the lower difficulty is the block's own nonce:
\* then the chain is unchanged and verify returns Ok.
C4_ReminedLower ==
    ReminedLower =>
        IF blocks[op.at + 1].nonce # before[op.at + 1].nonce
        THEN /\ verify(blocks)
                    = Err(HashTarget, op.at, DIFFICULTY, hash(blocks[op.at + 1]))
             /\ IdOk(blocks, op.at)
             /\ LinkOk(blocks, op.at)
        ELSE blocks = before /\ verify(blocks) = Ok

C4_Witness ==
    /\ ReminedLower
    /\ op.difficulty = 1
    /\ op.at = 2
    /\ blocks[3].nonce < before[3].nonce
    /\ ~verify(blocks).ok
    /\ verify(blocks).kind = HashTarget

\* C5: verify returns Ok exactly when every position passes the three
\* checks, on every chain, tampered or not.
C5_OkIffAllValid ==
    verify(blocks).ok <=> \A i \in Positions(blocks) : Valid(blocks, i)

C5_Witness ==
    /\ tampers = 2
    /\ blocks # pristine
    /\ Len(blocks) = 3
    /\ \A i \in Positions(blocks) : Valid(blocks, i)
    /\ verdict = Some(Ok)

\* The lowest position that fails a check.
FirstBad(chain) ==
    CHOOSE i \in Positions(chain) :
        ~Valid(chain, i) /\ \A j \in 0..i - 1 : Valid(chain, j)

\* The first check position i fails, in the order id, link, target.
KindAt(chain, i) ==
    IF ~IdOk(chain, i) THEN IdMismatch
    ELSE IF ~LinkOk(chain, i) THEN LinkBroken
    ELSE HashTarget

\* C6: a failing verify names the lowest position that fails a check, and
\* there the first failing check in the order id, link, target.
C6_FirstViolation ==
    ~verify(blocks).ok =>
        /\ verify(blocks).at = FirstBad(blocks)
        /\ verify(blocks).kind = KindAt(blocks, FirstBad(blocks))

C6_Witness ==
    /\ Len(blocks) = 3
    /\ ~IdOk(blocks, 1) /\ ~LinkOk(blocks, 1)
    /\ ~Valid(blocks, 2)
    /\ verdict = Some(Err(IdMismatch, 1, 1, blocks[2].id))

\* C7: the block a push appends, whatever the payload and the tail it was
\* made on, has a hash of at least DIFFICULTY leading zero bits.
C7_MadeBlockMeetsTarget ==
    (op.name = "push" /\ ~aborted) =>
        leading_zero_bits(hash(blocks[Len(blocks)])) >= DIFFICULTY

C7_Witness ==
    /\ op.name = "push" /\ ~aborted
    /\ tampers > 0
    /\ Len(blocks) = 3
    /\ ~Valid(blocks, 1)
    /\ blocks[3].nonce > 0

\* C8: a push that returns on a push-built chain of length n gives a chain
\* of length n + 1 whose new block carries the payload, the id n, and the
\* hash of block n - 1 (the sentinel when n = 0) as prev_hash.
C8_PushedBlock ==
    (op.name = "push" /\ tampers = 0 /\ ~aborted) =>
        /\ Len(blocks) = Len(before) + 1
        /\ blocks[Len(blocks)].data = op.data
        /\ blocks[Len(blocks)].id = Len(before)
        /\ blocks[Len(blocks)].prev_hash
              = IF before = <<>> THEN ZERO_HASH ELSE hash(before[Len(before)])

C8_Witness ==
    /\ op.name = "push" /\ tampers = 0 /\ ~aborted
    /\ Len(before) = 2
    /\ op.data = <<0>>
    /\ blocks[3].id = 2

\* C9: once the payload or prev_hash written into a block, which made verify
\* fail, is written back to its original value, verify returns Ok again.
C9_RestoreVerifies ==
    (/\ tampers = 2
     /\ op.name \in {"set_data", "set_prev_hash"}
     /\ blocks = pristine
     /\ ~verify(before).ok) => verify(blocks) = Ok

C9_Witness ==
    /\ tampers = 2
    /\ op.name = "set_prev_hash"
    /\ blocks = pristine
    /\ ~verify(before).ok
    /\ Len(blocks) = 3
    /\ verify(blocks) = Ok

\* C10: push leaves the blocks already in the chain as they were, so the
\* chain before it is a prefix of the chain after it; verify leaves the
\* chain as it was.
C10_AppendOnly ==
    /\ op.name = "push" =>
          /\ Len(blocks) >= Len(before)
          /\ SubSeq(blocks, 1, Len(before)) = before
          /\ ~aborted => Len(blocks) = Len(before) + 1
    /\ op.name = "verify" => blocks = before

C10_Witness ==
    /\ op.name = "push"
    /\ ~aborted
    /\ tampers > 0
    /\ Len(before) = 2
    /\ Len(blocks) = 3

\* serialize's own output is what deserialize is about to read, or has read.
Intact == call.fn = "serialize" /\ result = Some(serialize(call.chain))

\* C11: deserialize(serialize(C)) succeeds and gives a chain equal to C field
\* for field, for every chain C, whether C verifies or not.
C11_RoundTrip ==
    (Intact /\ decoded # None) =>
        decoded = Some([ok |-> TRUE, chain |-> call.chain])

C11_Witness ==
    /\ Intact
    /\ Len(call.chain) = 2
    /\ call.chain[1].id = 300
    /\ call.chain[2].data = <<255, 0>>
    /\ ~verify(call.chain).ok
    /\ decoded = Some([ok |-> TRUE, chain |-> call.chain])

\* Nonce n gives the block a hash that meets the difficulty.
Qualifies(block, difficulty, n) ==
    matches_difficulty(hash([block EXCEPT !.nonce = n]), difficulty)

\* find_nonce has been applied to call.block at call.difficulty.
Mined == call.fn = "find_nonce" /\ result # None

\* C12: mining tries the nonces in ascending order up to and including the
\* largest 32-bit value: when that value is the only nonce that meets the
\* difficulty, mining returns the block with that nonce.
C12_LargestNonceTried ==
    (/\ Mined
     /\ Qualifies(call.block, call.difficulty, U32_MAX)
     /\ \A n \in 0..U32_MAX - 1 : ~Qualifies(call.block, call.difficulty, n)) =>
        /\ result[1].returned
        /\ result[1].block.nonce = U32_MAX

\* C13: when find_nonce returns, the block's nonce meets the difficulty and
\* no smaller nonce does with the same id, payload and prev_hash, which are
\* the ones the block had before.
C13_SmallestNonce ==
    (Mined /\ result[1].returned) =>
        /\ Qualifies(call.block, call.difficulty, result[1].block.nonce)
        /\ \A n \in 0..result[1].block.nonce - 1 :
              ~Qualifies(call.block, call.difficulty, n)
        /\ result[1].block.id = call.block.id
        /\ result[1].block.data = call.block.data
        /\ result[1].block.prev_hash = call.block.prev_hash

C13_Witness ==
    /\ Mined /\ result[1].returned
    /\ call.difficulty = DIFFICULTY
    /\ call.block.nonce = 70000
    /\ call.block.data = <<255, 0>>
    /\ result[1].block.nonce > 10

\* C14: mining aborts exactly when no nonce of the whole 32-bit space meets
\* the difficulty; a push whose mining aborts leaves the chain as it was.
C14_AbortsIffNoNonce ==
    /\ Mined =>
          (~result[1].returned
              <=> \A n \in 0..U32_MAX : ~Qualifies(call.block, call.difficulty, n))
    /\ (op.name = "push" /\ aborted) => blocks = before

\* The part of C14 that is about push: mining that aborts appends nothing,
\* and a push that returns appends a block that meets DIFFICULTY.
C14_PushAppendsMinedOnly ==
    op.name = "push" =>
        IF aborted THEN blocks = before
        ELSE TargetOk(blocks, Len(blocks) - 1)

\* The unsigned integer a big-endian byte sequence encodes.
RECURSIVE FromBigEndian(_)
FromBigEndian(bytes) ==
    IF bytes = <<>> THEN 0
    ELSE FromBigEndian(SubSeq(bytes, 1, Len(bytes) - 1)) * 256 + bytes[Len(bytes)]

\* The block an encoding can only have come from: the fields at their fixed
\* offsets, and the payload as what lies between them.
Decode(bytes) ==
    [id |-> FromBigEndian(SubSeq(bytes, 1, 8)),
     nonce |-> FromBigEndian(SubSeq(bytes, 9, 12)),
     data |-> SubSeq(bytes, 13, Len(bytes) - HASH_LEN),
     prev_hash |-> SubSeq(bytes, Len(bytes) - HASH_LEN + 1, Len(bytes))]

\* as_bytes has been applied to call.left and to call.right.
Encoded == call.fn = "as_bytes" /\ result # None

\* C15 as stated: among the blocks as_bytes is applied to there are two with
\* the same id and nonce and different (payload, prev_hash) pairs that have
\* the same encoding.
C15_Original ==
    Encoded =>
        \E b1 \in SampleBlocks, b2 \in SampleBlocks :
            /\ b1.id = b2.id /\ b1.nonce = b2.nonce
            /\ <<b1.data, b1.prev_hash>> # <<b2.data, b2.prev_hash>>
            /\ as_bytes(b1) = as_bytes(b2)

\* C15 amended: the encoding determines the block.  Its length is 12 plus
\* the payload's plus 32, every field is read back from its place, and two
\* blocks with the same encoding are the same block.
C15_Injective ==
    Encoded =>
        /\ Len(result[1][1]) = 8 + 4 + Len(call.left.data) + HASH_LEN
        /\ Decode(result[1][1]) = call.left
        /\ Decode(result[1][2]) = call.right
        /\ result[1][1] = result[1][2] => call.left = call.right

C15_Witness ==
    /\ Encoded
    /\ call.left.id = call.right.id /\ call.left.nonce = call.right.nonce
    /\ call.left.data = <<0>> /\ call.right.data = <<>>
    /\ call.left.prev_hash = ZERO_HASH /\ call.right.prev_hash = ZERO_HASH
    /\ result[1][1] # result[1][2]
    /\ result[1][1] = result[1][2] \o <<0>>

\* Bit k (0 the most significant of the first byte) of a byte sequence.
Bit(h, k) == (h[(k \div 8) + 1] \div (2 ^ (7 - (k % 8)))) % 2

\* The number of zero bits before the first 1 bit; all of them when there is
\* no 1 bit.
ZeroBitsBeforeFirstOne(h) ==
    LET ones == {k \in 0..Len(h) * 8 - 1 : Bit(h, k) = 1}
    IN  IF ones = {} THEN Len(h) * 8
        ELSE CHOOSE k \in ones : \A m \in ones : k <= m

\* C16: leading_zero_bits of a 32-byte hash is the number of zero bits
\* before the first 1 bit of the hash read as a 256-bit big-endian string,
\* 256 for the all-zero hash, and matches_difficulty(hash, D) holds exactly
\* when that number is at least D.
C16_LeadingZeroBits ==
    (call.fn = "matches_difficulty" /\ result # None) =>
        /\ result[1].zero_bits = ZeroBitsBeforeFirstOne(call.hash)
        /\ result[1].matches
              <=> ZeroBitsBeforeFirstOne(call.hash) >= call.difficulty

C16_Witness ==
    /\ call.fn = "matches_difficulty"
    /\ call.hash = ZERO_HASH
    /\ call.difficulty = HASH_LEN * 8
    /\ result = Some([zero_bits |-> HASH_LEN * 8, matches |-> TRUE])

\* C17: when verify fails on a chain, it fails in the same way, with the
\* same kind of error at the same index, after a push on that chain; so it
\* does after any number of pushes, and no push makes a failing chain verify.
C17_ErrorSurvivesPush ==
    [][(~verify(blocks).ok /\ op'.name = "push")
          => verify(blocks') = verify(blocks)]_vars

C17_Witness ==
    /\ op.name = "push" /\ ~aborted
    /\ Len(before) = 1 /\ Len(blocks) = 2
    /\ ~verify(before).ok
    /\ Valid(blocks, 1)
    /\ verify(blocks) = verify(before)

\* C18: after a write that changes only the payload of block i of a
\* push-built chain and changes the block's hash, verify reports a
\* hash-target failure at i or a broken link at i + 1 and nothing else; it
\* returns Ok only when i is the last block and the new hash meets
\* DIFFICULTY.
C18_PayloadWriteReport ==
    (/\ FirstWrite("set_data")
     /\ hash(blocks[op.at + 1]) # hash(before[op.at + 1])) =>
        /\ verify(blocks) = Ok =>
              op.at = Len(blocks) - 1 /\ TargetOk(blocks, op.at)
        /\ ~verify(blocks).ok =>
              \/ verify(blocks).kind = HashTarget /\ verify(blocks).at = op.at
              \/ verify(blocks).kind = LinkBroken /\ verify(blocks).at = op.at + 1

C18_Witness ==
    /\ FirstWrite("set_data")
    /\ hash(blocks[op.at + 1]) # hash(before[op.at + 1])
    /\ op.at = Len(blocks) - 1
    /\ verify(blocks) = Ok

\* C19: on any chain with a tail, tampered or not, the block a push appends
\* has the tail's id plus one as its id and the hash of the tail as it is now
\* as its prev_hash; when the tail's id is not its position, the new block's
\* id is not its position either.
C19_DerivedFromTail ==
    (op.name = "push" /\ ~aborted /\ before # <<>>) =>
        /\ blocks[Len(blocks)].id = before[Len(before)].id + 1
        /\ blocks[Len(blocks)].prev_hash = hash(before[Len(before)])
        /\ before[Len(before)].id # Len(before) - 1
              => blocks[Len(blocks)].id # Len(blocks) - 1

C19_Witness ==
    /\ op.name = "push" /\ ~aborted
    /\ Len(before) = 2
    /\ before[2].id = 0
    /\ ~verify(before).ok
    /\ blocks[3].id = 1
    /\ blocks[3].prev_hash = hash(before[2])

=============================================================================
